---------------------------- MODULE Spec2Model ----------------------------
(***************************************************************************)
(* Conway's Game of Life on a toroidal grid, game_of_life.cpp:             *)
(* the sparse double-buffered simulation step (advanceSim), the age        *)
(* tracker (advanceAge), the pattern loader (dropPattern), the renderer's  *)
(* reads of both maps (drawScreen) and the per-tick handler                *)
(* (LifeSingleton::update).                                                *)
(*                                                                         *)
(* A LifeCoord is a pair <<x, y>>.  A LifeBuffer (unordered_map from       *)
(* LifeCoord to CellState) is a function from a finite set of coordinates  *)
(* to the cells' values; a key that is absent from the map is absent from  *)
(* the function's domain.                                                  *)
(***************************************************************************)
EXTENDS Integers, Sequences, FiniteSets, TLC

\* X and Y screen resolution, and the side of a cell in pixels.
X_SCREEN == 1024
Y_SCREEN == 768
PIXEL_PER_GRID == 2

\* The play board.
X_GRID == X_SCREEN \div PIXEL_PER_GRID
Y_GRID == Y_SCREEN \div PIXEL_PER_GRID

\* drawScreen's palette size and aging rate.
NUM_COLORS == 256
AGE_RATE == 16

\* The number of glider guns the constructor stamps.
NUM_GUNS == 10

gliderGun ==
  <<
     << " ", " ", " ", " ", " ", " ", " ", " ", " ", " ", " ", " ", " ", " ", " ", " ", " ", " ", " ", " ", " ", " ", " ", " ", " ", "X", " ", " ", " ", " ", " ", " ", " ", " ", " ", " ", " ", " ", " " >>,
     << " ", " ", " ", " ", " ", " ", " ", " ", " ", " ", " ", " ", " ", " ", " ", " ", " ", " ", " ", " ", " ", " ", " ", "X", " ", "X", " ", " ", " ", " ", " ", " ", " ", " ", " ", " ", " ", " ", " " >>,
     << " ", " ", " ", " ", " ", " ", " ", " ", " ", " ", " ", " ", " ", "X", "X", " ", " ", " ", " ", " ", " ", "X", "X", " ", " ", " ", " ", " ", " ", " ", " ", " ", " ", " ", " ", "X", "X", " ", " " >>,
     << " ", " ", " ", " ", " ", " ", " ", " ", " ", " ", " ", " ", "X", " ", " ", " ", "X", " ", " ", " ", " ", "X", "X", " ", " ", " ", " ", " ", " ", " ", " ", " ", " ", " ", " ", "X", "X", " ", " " >>,
     << " ", "X", "X", " ", " ", " ", " ", " ", " ", " ", " ", "X", " ", " ", " ", " ", " ", "X", " ", " ", " ", "X", "X", " ", " ", " ", " ", " ", " ", " ", " ", " ", " ", " ", " ", " ", " ", " ", " " >>,
     << " ", "X", "X", " ", " ", " ", " ", " ", " ", " ", " ", "X", " ", " ", " ", "X", " ", "X", "X", " ", " ", " ", " ", "X", " ", "X", " ", " ", " ", " ", " ", " ", " ", " ", " ", " ", " ", " ", " " >>,
     << " ", " ", " ", " ", " ", " ", " ", " ", " ", " ", " ", "X", " ", " ", " ", " ", " ", "X", " ", " ", " ", " ", " ", " ", " ", "X", " ", " ", " ", " ", " ", " ", " ", " ", " ", " ", " ", " ", " " >>,
     << " ", " ", " ", " ", " ", " ", " ", " ", " ", " ", " ", " ", "X", " ", " ", " ", "X", " ", " ", " ", " ", " ", " ", " ", " ", " ", " ", " ", " ", " ", " ", " ", " ", " ", " ", " ", " ", " ", " " >>,
     << " ", " ", " ", " ", " ", " ", " ", " ", " ", " ", " ", " ", " ", "X", "X", " ", " ", " ", " ", " ", " ", " ", " ", " ", " ", " ", " ", " ", " ", " ", " ", " ", " ", " ", " ", " ", " ", " ", " " >>
  >>

(***************************************************************************)
(* Arithmetic.  Coordinates are `unsigned' (32 bits): an int added to one  *)
(* is converted to unsigned, so a negative intermediate sum v stands for   *)
(* v + 2^32 before the % is taken.                                         *)
(***************************************************************************)
TwoPow32Mod(m) == (((2^16) % m) * ((2^16) % m)) % m

\* (unsigned) v % m, for an integer v with -2^31 < v < 2^31.
UMod(v, m) == IF v >= 0 THEN v % m ELSE ((v % m) + TwoPow32Mod(m)) % m

\* rotate & 1, rotate & 2, as conditions.
Bit0(r) == r % 2 = 1
Bit1(r) == (r \div 2) % 2 = 1

(***************************************************************************)
(* LifeBuffer operations.                                                  *)
(***************************************************************************)
\* A default-constructed LifeBuffer.
EmptyBuffer == [c \in {} |-> 0]

\* What buf[c].value reads: operator[] makes an absent cell with value 0.
ValueAt(buf, c) == IF c \in DOMAIN buf THEN buf[c] ELSE 0

\* The coordinates whose entry is nonzero (what `if ( i.second.value )' tests).
AliveSet(buf) == {c \in DOMAIN buf : buf[c] # 0}

(***************************************************************************)
(* advanceSim                                                              *)
(***************************************************************************)
\* The loops without the `x !=0 || y != 0' test: a cell counts itself.
NeighbourOffsetsWithSelf ==
  << <<-1, -1>>, <<-1, 0>>, <<-1, 1>>,
     << 0, -1>>, << 0, 0>>, << 0, 1>>,
     << 1, -1>>, << 1, 0>>, << 1, 1>> >>

\* The (x, y) pairs of the two nested loops, in the loops' order, without (0,0).
NeighbourOffsets ==
  << <<-1, -1>>, <<-1, 0>>, <<-1, 1>>,
     << 0, -1>>,            << 0, 1>>,
     << 1, -1>>, << 1, 0>>, << 1, 1>> >>

\* The inner loop without `+ X_GRID' and `+ Y_GRID'.
NeighbourCoordNoBias(c, d) ==
  << UMod(d[1] + c[1], X_GRID), UMod(d[2] + c[2], Y_GRID) >>

\* The inner loop without the wrap.
NeighbourCoordNoWrap(c, d) == << d[1] + c[1], d[2] + c[2] >>

\* LifeCoord( xc, yc ) of the inner loop.
NeighbourCoord(c, d) ==
  << UMod(d[1] + c[1] + X_GRID, X_GRID), UMod(d[2] + c[2] + Y_GRID, Y_GRID) >>

\* The first loop.  Every execution of `dbuffer.first[ ... ].value += 1' is a
\* hit <<target, c, k>>: one for each entry c of `second' with a nonzero value
\* and each offset number k.  The loop leaves every target with an entry,
\* raised (from 0 where `first' had none) by the number of hits it took.
\* The first loop without its `continue' for entries that hold 0.
NeighbourHitsFromDead(second) ==
  { <<NeighbourCoord(c, NeighbourOffsets[k]), c, k>> :
      c \in DOMAIN second, k \in 1 .. Len(NeighbourOffsets) }

NeighbourHits(second) ==
  { <<NeighbourCoord(c, NeighbourOffsets[k]), c, k>> :
      c \in {e \in DOMAIN second : second[e] # 0}, k \in 1 .. Len(NeighbourOffsets) }

CountNeighbours(first, second) ==
  LET hits == NeighbourHits(second)
  IN  [t \in DOMAIN first \cup {h[1] : h \in hits} |->
         ValueAt(first, t) + Cardinality({h \in hits : h[1] = t})]

\* The first loop run entry by entry: `first' once the loop has visited
\* order[1], ..., order[i], in that order.
RECURSIVE CountInOrder(_, _, _, _)
CountInOrder(first, second, order, i) ==
  IF i = 0 THEN first
  ELSE LET before == CountInOrder(first, second, order, i - 1)
           c == order[i]
           hit == 1 .. Len(NeighbourOffsets)
       IN  IF second[c] = 0 THEN before
           ELSE [t \in DOMAIN before \cup {NeighbourCoord(c, NeighbourOffsets[k]) : k \in hit} |->
                   ValueAt(before, t)
                     + Cardinality({k \in hit : NeighbourCoord(c, NeighbourOffsets[k]) = t})]

\* advanceSim without its clear().
KeepContents(buffer) == buffer

\* dbuffer.first.clear().
Clear(buffer) == EmptyBuffer

\* The rule with `> 4' for `>= 4'.
ApplyRuleOffByOne(n, prior) ==
  IF n <= 1 THEN 0
  ELSE IF n = 3 THEN 1
  ELSE IF n > 4 THEN 0
  ELSE prior

\* The rule with the overpopulation branch leaving the count in place.
ApplyRuleCrowdUntouched(n, prior) ==
  IF n <= 1 THEN 0
  ELSE IF n = 3 THEN 1
  ELSE IF n >= 4 THEN n
  ELSE prior

\* The value the second loop leaves in an entry that holds the count n.
ApplyRule(n, prior) ==
  IF n <= 1 THEN 0
  ELSE IF n = 3 THEN 1
  ELSE IF n >= 4 THEN 0
  ELSE prior

\* The keys the second loop reads with dbuffer.second[ i.first ].
PriorLookups(counts) == {c \in DOMAIN counts : counts[c] = 2}

\* The step with the prior lookup creating its entries with value 1.
advanceSimDefaultsToOne(dbuffer) ==
  LET swapped == [first |-> dbuffer.second, second |-> dbuffer.first]
      cleared == [swapped EXCEPT !.first = Clear(swapped.first)]
      counts  == CountNeighbours(cleared.first, cleared.second)
      read    == PriorLookups(counts)
  IN  [first  |-> [c \in DOMAIN counts |-> ApplyRule(counts[c], ValueAt(cleared.second, c))],
       second |-> [c \in DOMAIN cleared.second \cup read |->
                     IF c \in DOMAIN cleared.second THEN cleared.second[c] ELSE 1]]

\* The step with the dead entries removed from the buffer it produces.
advanceSimPrunesDead(dbuffer) ==
  LET swapped == [first |-> dbuffer.second, second |-> dbuffer.first]
      cleared == [swapped EXCEPT !.first = Clear(swapped.first)]
      counts  == CountNeighbours(cleared.first, cleared.second)
      read    == PriorLookups(counts)
      born    == {c \in DOMAIN counts : ApplyRule(counts[c], ValueAt(cleared.second, c)) = 1}
  IN  [first  |-> [c \in born |-> 1],
       second |-> [c \in DOMAIN cleared.second \cup read |-> ValueAt(cleared.second, c)]]

advanceSim(dbuffer) ==
  LET swapped == [first |-> dbuffer.second, second |-> dbuffer.first]
      cleared == [swapped EXCEPT !.first = Clear(swapped.first)]
      counts  == CountNeighbours(cleared.first, cleared.second)
      read    == PriorLookups(counts)
  IN  [first  |-> [c \in DOMAIN counts |-> ApplyRule(counts[c], ValueAt(cleared.second, c))],
       second |-> [c \in DOMAIN cleared.second \cup read |-> ValueAt(cleared.second, c)]]

(***************************************************************************)
(* advanceAge                                                              *)
(***************************************************************************)
\* The first loop with its test inverted.
ToEraseInverted(age, current) == {c \in DOMAIN age : c \in DOMAIN current}

ToErase(age, current) == {c \in DOMAIN age : c \notin DOMAIN current}

Erase(age, keys) == [c \in DOMAIN age \ keys |-> age[c]]

\* The second loop with `= 1' for `+= 1'.
SetAllToOne(age, current) ==
  [c \in DOMAIN age \cup DOMAIN current |-> IF c \in DOMAIN current THEN 1 ELSE age[c]]

\* The second loop: current holds each key once, so each gets one `+= 1',
\* which creates the entry (from 0) where the age map has none.
IncrementAll(age, current) ==
  [c \in DOMAIN age \cup DOMAIN current |->
     IF c \in DOMAIN current THEN ValueAt(age, c) + 1 ELSE age[c]]

advanceAge(age, current) ==
  IncrementAll(Erase(age, ToErase(age, current)), current)

(***************************************************************************)
(* dropPattern.  A Pattern is a sequence of rows, a row a sequence of      *)
(* one-character strings.                                                  *)
(***************************************************************************)
\* The coordinate written for the counters xp and yp.
DropCoord(x, y, xp, yp) ==
  << UMod(x + xp + X_GRID, X_GRID), UMod(y + yp + Y_GRID, Y_GRID) >>

CellOf(ch) == IF ch = "X" THEN 1 ELSE 0

\* The column stride with the rotation ignored.
XStrideFixed(rotate) == 1

XStride(rotate) == IF Bit0(rotate) THEN 1 ELSE -1
YStride(rotate) == IF Bit1(rotate) THEN 1 ELSE -1

\* The inner loop over characters lo..hi of a row, xp being the counter's
\* value at character lo: the map of the cells it assigns to the value each is
\* left with.  The assignments run in order, so where two of them name the
\* same coordinate the later one stands (@@ keeps its left operand's entry).
RECURSIVE RowWrites(_, _, _, _, _, _, _, _)
RowWrites(x, y, row, lo, hi, xp, yp, rotate) ==
  IF lo > hi THEN EmptyBuffer
  ELSE IF lo = hi THEN DropCoord(x, y, xp, yp) :> CellOf(row[lo])
  ELSE LET mid == (lo + hi) \div 2
       IN  RowWrites(x, y, row, mid + 1, hi, xp + (mid + 1 - lo) * XStride(rotate), yp, rotate)
             @@ RowWrites(x, y, row, lo, mid, xp, yp, rotate)

\* The outer loop over rows lo..hi, yp being the counter's value at row lo.
RECURSIVE PatternWrites(_, _, _, _, _, _, _)
PatternWrites(x, y, pattern, lo, hi, yp, rotate) ==
  IF lo > hi THEN EmptyBuffer
  ELSE IF lo = hi THEN RowWrites(x, y, pattern[lo], 1, Len(pattern[lo]), 0, yp, rotate)
  ELSE LET mid == (lo + hi) \div 2
       IN  PatternWrites(x, y, pattern, mid + 1, hi, yp + (mid + 1 - lo) * YStride(rotate), rotate)
             @@ PatternWrites(x, y, pattern, lo, mid, yp, rotate)

\* The stamp made on a grid that is emptied first.
dropPatternFresh(grid, x, y, pattern, rotate) ==
  PatternWrites(x, y, pattern, 1, Len(pattern), 0, rotate)

\* The stamp made with insert(), which leaves an existing entry as it is.
dropPatternInsert(grid, x, y, pattern, rotate) ==
  grid @@ PatternWrites(x, y, pattern, 1, Len(pattern), 0, rotate)

\* grid[ LifeCoord( xc, yc ) ].value = ..., for every character: the cells the
\* loops assign take the value assigned, every other entry of grid stays.
dropPattern(grid, x, y, pattern, rotate) ==
  PatternWrites(x, y, pattern, 1, Len(pattern), 0, rotate) @@ grid

(***************************************************************************)
(* drawScreen.  The surface is the set of writes <<index, palette entry>>  *)
(* made after the clear (every other pixel is black).                      *)
(* age.at( c ) throws std::out_of_range for a key the age map lacks, when  *)
(* the loop reaches that key: the surface is cleared by then and the live  *)
(* cells visited earlier are painted.  Which entries come earlier is the   *)
(* unordered_map's iteration order, so it is an input of the draw.         *)
(***************************************************************************)
ClippedAge(a) ==
  LET adjustedAge == a \div AGE_RATE
  IN  IF adjustedAge < NUM_COLORS THEN adjustedAge ELSE NUM_COLORS - 1

\* The indices xc + yc * X_SCREEN of the pixels of cell c.
PixelsOf(c) ==
  { (x + c[1] * PIXEL_PER_GRID) + (y + c[2] * PIXEL_PER_GRID) * X_SCREEN :
      x \in 0 .. PIXEL_PER_GRID - 1, y \in 0 .. PIXEL_PER_GRID - 1 }

\* A frame: whether the draw threw, and the writes (pixel index, palette entry).
BlackFrame == [threw |-> FALSE, pixels |-> {}]

\* The sets of entries the loop over `buffer' can have visited when it
\* stops: all of them when the age map has every key, and otherwise any set
\* of entries the age map has (those that come before the first it lacks).
Visited(buffer, age) ==
  IF \A c \in DOMAIN buffer : c \in DOMAIN age
  THEN {DOMAIN buffer}
  ELSE SUBSET (DOMAIN buffer \cap DOMAIN age)

\* The draw whose loop visits the entries `before' and then, if the age map
\* lacks a key of the buffer, reaches such a key and throws.
drawScreen(buffer, age, before) ==
  LET complete == \A c \in DOMAIN buffer : c \in DOMAIN age
      visited  == IF complete THEN DOMAIN buffer ELSE before \cap DOMAIN buffer \cap DOMAIN age
  IN  [threw  |-> ~complete,
       pixels |-> UNION { {<<p, ClippedAge(age[c])>> : p \in PixelsOf(c)} :
                            c \in AliveSet(buffer) \cap visited }]

\* The update with the draw made from the age map as it was before advanceAge.
updateDrawsBeforeAging(s, before) ==
  LET life == advanceSim(s.life)
      age  == advanceAge(s.age, life.first)
  IN  [life |-> life, age |-> age, screen |-> drawScreen(life.first, s.age, before)]

\* LifeSingleton::update, on the simulation's members; `before' as for the
\* draw it ends with.
update(s, before) ==
  LET life == advanceSim(s.life)
      age  == advanceAge(s.age, life.first)
  IN  [life |-> life, age |-> age, screen |-> drawScreen(life.first, age, before)]

(***************************************************************************)
(* State.  life and age are LifeSingleton's members and screen the frame   *)
(* last drawn.  The others record the run: op the operation that made the  *)
(* state, n how many operations ran, pre the members before the last       *)
(* operation that writes them (drawScreen only reads them), arg the last   *)
(* dropPattern's arguments, seed the live cells of the                     *)
(* starting generation, streak for how many ticks in a row each live cell  *)
(* has been alive.                                                         *)
(***************************************************************************)
VARIABLES life, age, screen, op, n, pre, arg, seed, streak

vars == <<life, age, screen, op, n, pre, arg, seed, streak>>

Members == [life |-> life, age |-> age]

NoArg == [x |-> 0, y |-> 0, pattern |-> << >>, rotate |-> 0]

\* The state a run starts in, with `first' as the current generation.
Start(first, second, ages) ==
  /\ life = [first |-> first, second |-> second]
  /\ age = ages
  /\ screen = BlackFrame
  /\ op = "start"
  /\ n = 0
  /\ pre = [life |-> [first |-> first, second |-> second], age |-> ages]
  /\ arg = NoArg
  /\ seed = AliveSet(first)
  /\ streak = EmptyBuffer

\* The consecutive-ticks-alive count after a tick that leaves `first' current.
NextStreak(first) == [c \in AliveSet(first) |-> ValueAt(streak, c) + 1]

(***************************************************************************)
(* The program: the constructor, then one update per tick.                 *)
(***************************************************************************)
MaxTicks == 6

\* rand() draws for one stamp: x, y, rotation (before the % of the call).
GunDraws == { <<0, 0, 0>>, <<500, 380, 3>>, <<1000, 200, 6>> }

\* main() before the constructor's loop: the members are default-constructed.
Init == Start(EmptyBuffer, EmptyBuffer, EmptyBuffer)

\* One pass of the constructor's loop.
Seed ==
  /\ n < NUM_GUNS
  /\ \E d \in GunDraws :
       LET a == [x |-> d[1] % X_GRID, y |-> d[2] % Y_GRID,
                 pattern |-> gliderGun, rotate |-> d[3] % 4]
       IN  /\ life' = [life EXCEPT !.first = dropPattern(life.first, a.x, a.y, a.pattern, a.rotate)]
           /\ arg' = a
  /\ op' = "dropPattern"
  /\ n' = n + 1
  /\ pre' = Members
  /\ seed' = AliveSet(life'.first)
  /\ UNCHANGED <<age, screen, streak>>

\* tick(): one LifeSingleton::update, once the constructor has returned.
Tick ==
  /\ n >= NUM_GUNS
  /\ n < NUM_GUNS + MaxTicks
  /\ LET m == update(Members, {})
     IN  \E before \in Visited(m.life.first, m.age) :
           LET r == update(Members, before)
           IN  /\ life' = r.life
               /\ age' = r.age
               /\ screen' = r.screen
               /\ streak' = NextStreak(r.life.first)
  /\ op' = "update"
  /\ n' = n + 1
  /\ pre' = Members
  /\ UNCHANGED <<arg, seed>>

Next == Seed \/ Tick

Spec == Init /\ [][Next]_vars

(***************************************************************************)
(* advanceSim on its own, from every generation drawn in a 3 x 3 window:   *)
(* around the middle of the board, and around cells of its edges and       *)
(* corners, where the window wraps.                                        *)
(***************************************************************************)
MaxSimSteps == 4

SimOrigins == { <<100, 100>>, <<0, 0>>, <<X_GRID - 1, Y_GRID - 1>>, <<0, 200>> }

\* The board's coordinate at offset (dx, dy) from c.
Shift(c, dx, dy) == << (c[1] + dx) % X_GRID, (c[2] + dy) % Y_GRID >>

Window(o) == { Shift(o, dx, dy) : dx \in -1 .. 1, dy \in -1 .. 1 }

\* The generation with the cells of `alive' set; with `stale', the window's
\* other cells and one far cell have zero-valued entries.
Generation(o, alive, stale) ==
  [c \in (IF stale THEN Window(o) \cup {Shift(o, 7, 7)} ELSE alive) |->
     IF c \in alive THEN 1 ELSE 0]

\* What an earlier step may have left in the buffer about to be cleared.
Leftover(o, stale) ==
  IF stale THEN [c \in {o, Shift(o, 1, 0), Shift(o, 5, 5)} |-> IF c = o THEN 0 ELSE 1]
  ELSE EmptyBuffer

SimInit ==
  \E o \in SimOrigins, stale \in BOOLEAN : \E alive \in SUBSET Window(o) :
    Start(Generation(o, alive, stale), Leftover(o, stale), EmptyBuffer)

SimStep ==
  /\ n < MaxSimSteps
  /\ life' = advanceSim(life)
  /\ op' = "advanceSim"
  /\ n' = n + 1
  /\ pre' = Members
  /\ UNCHANGED <<age, screen, arg, seed, streak>>

SimNext == SimStep

SimSpec == SimInit /\ [][SimNext]_vars

(***************************************************************************)
(* advanceAge and the draw that follows it, from every age map and every   *)
(* current buffer over a few coordinates.                                  *)
(***************************************************************************)
MaxAgeSteps == 3

AgeCoords == { <<0, 0>>, <<X_GRID - 1, Y_GRID - 1>>, <<7, 3>> }

\* The buffers with keys among K and values among V.
BuffersOver(K, V) == UNION { [S -> V] : S \in SUBSET K }

AgeInit ==
  \E current \in BuffersOver(AgeCoords, {0, 1}), ages \in BuffersOver(AgeCoords, {1, 40}) :
    Start(current, EmptyBuffer, ages)

AgeStep ==
  /\ n < MaxAgeSteps
  /\ age' = advanceAge(age, life.first)
  /\ op' = "advanceAge"
  /\ n' = n + 1
  /\ pre' = Members
  /\ UNCHANGED <<life, screen, arg, seed, streak>>

DrawStep ==
  /\ n < MaxAgeSteps
  /\ op = "advanceAge"
  /\ \E before \in Visited(life.first, age) :
       screen' = drawScreen(life.first, age, before)
  /\ op' = "drawScreen"
  /\ n' = n + 1
  /\ UNCHANGED <<life, age, pre, arg, seed, streak>>

AgeNext == AgeStep \/ DrawStep

AgeSpec == AgeInit /\ [][AgeNext]_vars

(***************************************************************************)
(* dropPattern on its own: stamps of small patterns onto an empty buffer,   *)
(* onto ground that already holds life and onto each other; the first      *)
(* stamp may be of a pattern wider or taller than the board.               *)
(***************************************************************************)
MaxDrops == 2

DropOrigins == { <<0, 0>>, <<X_GRID - 1, Y_GRID - 1>> }

\* Rows of unequal length, no symmetry.
Hook == << <<"X", "X", " ">>, <<"X", " ">>, <<" ", " ", "X", "X">> >>
Blank == << <<" ", ".">>, <<".", " ">> >>
Dot == << <<"X">> >>
\* One row of X_GRID + 1 characters: its last character lands on its first.
Wide == << [i \in 1 .. X_GRID + 1 |-> IF i = 1 THEN "X" ELSE "."], <<"X", "X">> >>

\* Y_GRID + 2 rows of one character, the last one 'X'.
Tall == [j \in 1 .. Y_GRID + 2 |-> << IF j = Y_GRID + 2 THEN "X" ELSE "." >>]

Patterns == { Hook, Blank, Dot }

Ground == [c \in {<<0, 0>>, <<1, 0>>, <<0, 1>>, <<2, 2>>} |-> IF c = <<2, 2>> THEN 0 ELSE 1]

DropInit == \E g \in {EmptyBuffer, Ground} : Start(g, EmptyBuffer, EmptyBuffer)

Stamp(o, p, r) ==
  /\ life' = [life EXCEPT !.first = dropPattern(life.first, o[1], o[2], p, r)]
  /\ arg' = [x |-> o[1], y |-> o[2], pattern |-> p, rotate |-> r]
  /\ op' = "dropPattern"
  /\ n' = n + 1
  /\ pre' = Members
  /\ seed' = AliveSet(life'.first)
  /\ UNCHANGED <<age, screen, streak>>

Drop ==
  /\ n < MaxDrops
  /\ \E o \in DropOrigins, p \in Patterns, r \in 0 .. 3 : Stamp(o, p, r)

DropWide ==
  /\ n = 0
  /\ \E o \in DropOrigins, r \in 0 .. 3 : Stamp(o, Wide, r)

DropTall ==
  /\ n = 0
  /\ \E o \in DropOrigins, r \in 0 .. 3 : Stamp(o, Tall, r)

DropNext == Drop \/ DropWide \/ DropTall

DropSpec == DropInit /\ [][DropNext]_vars

(***************************************************************************)
(* Claims about advanceSim (SimSpec).                                      *)
(***************************************************************************)
MooreOffsets == ((-1 .. 1) \X (-1 .. 1)) \ {<<0, 0>>}

\* A cell counts as alive when its entry holds 1.
IsAlive(buf, c) == c \in DOMAIN buf /\ buf[c] = 1

\* The number of c's 8 toroidal neighbours that are alive in buf.
LiveNeighbours(buf, c) ==
  Cardinality({d \in MooreOffsets : IsAlive(buf, Shift(c, d[1], d[2]))})

\* Conway's rule for c, from the generation buf.
ConwayAlive(buf, c) ==
  LET N == LiveNeighbours(buf, c)
  IN  N = 3 \/ (N = 2 /\ IsAlive(buf, c))

\* Coordinates far from every window.
Probes == { <<50, 50>>, <<X_GRID - 1, 0>>, <<300, Y_GRID - 1>> }

\* Every coordinate with an entry before or after the step, every neighbour
\* of a cell alive before it, and the probes.  Any other coordinate has no
\* entry after the step and no live neighbour before it.
Checked(before, after) ==
  DOMAIN before \cup DOMAIN after \cup Probes
    \cup { Shift(c, d[1], d[2]) : c \in AliveSet(before), d \in MooreOffsets }

\* C1: after one advanceSim a cell is alive (holds 1) exactly when it had 3
\* live toroidal neighbours before the step, or 2 and was alive itself; in
\* every other case it holds 0 or has no entry.
C1_ConwayRule ==
  op = "advanceSim" =>
    \A c \in Checked(pre.life.first, life.first) :
      /\ IsAlive(life.first, c) <=> ConwayAlive(pre.life.first, c)
      /\ ~ConwayAlive(pre.life.first, c) => ValueAt(life.first, c) = 0

\* A birth at (0, 200) from 3 live neighbours, one of them (X_GRID - 1, 199).
C1_Witness ==
  /\ op = "advanceSim"
  /\ n = 1
  /\ IsAlive(pre.life.first, <<X_GRID - 1, 199>>)
  /\ ~IsAlive(pre.life.first, <<0, 200>>)
  /\ LiveNeighbours(pre.life.first, <<0, 200>>) = 3
  /\ IsAlive(life.first, <<0, 200>>)

IsBlock(S) ==
  \E c \in S : S = {c, Shift(c, 1, 0), Shift(c, 0, 1), Shift(c, 1, 1)}

\* C6: from a generation whose live cells are one 2 x 2 block, the live
\* cells after any number n >= 1 of advanceSim calls are those same 4 cells.
C6_BlockIsFixed ==
  (IsBlock(seed) /\ n >= 1) => AliveSet(life.first) = seed

\* The block that straddles the board's corner, after three steps.
C6_Witness ==
  /\ n = 3
  /\ seed = {<<X_GRID - 1, Y_GRID - 1>>, <<0, Y_GRID - 1>>, <<X_GRID - 1, 0>>, <<0, 0>>}
  /\ AliveSet(life.first) = seed

Row3(c) == {Shift(c, -1, 0), c, Shift(c, 1, 0)}
Column3(c) == {Shift(c, 0, -1), c, Shift(c, 0, 1)}

\* C7: a blinker has period 2: after an odd number of advanceSim calls the
\* live cells are the perpendicular line through the same centre, after an
\* even number the original line.
C7_BlinkerPeriod2 ==
  \A c \in seed :
    /\ seed = Row3(c) =>
         AliveSet(life.first) = (IF n % 2 = 0 THEN Row3(c) ELSE Column3(c))
    /\ seed = Column3(c) =>
         AliveSet(life.first) = (IF n % 2 = 0 THEN Column3(c) ELSE Row3(c))

\* The row through (0, 0), which wraps, back after two steps, with
\* zero-valued entries in both buffers.
C7_Witness ==
  /\ n = 2
  /\ seed = Row3(<<0, 0>>)
  /\ AliveSet(life.first) = seed
  /\ AliveSet(pre.life.first) = Column3(<<0, 0>>)
  /\ \E c \in DOMAIN life.first : life.first[c] = 0
  /\ \E c \in DOMAIN life.second : life.second[c] = 0

\* C8: a live cell with no live neighbour has no entry in the new current
\* buffer; the age tracker then keeps no age for it and the renderer paints
\* none of its pixels.
C8_IsolatedCellDies ==
  op = "advanceSim" =>
    \A c \in AliveSet(pre.life.first) :
      LiveNeighbours(pre.life.first, c) = 0 =>
        LET ages == advanceAge(age, life.first)
        IN  /\ c \notin DOMAIN life.first
            /\ c \notin DOMAIN ages
            /\ \A before \in Visited(life.first, ages) :
                 \A w \in drawScreen(life.first, ages, before).pixels :
                   w[1] \notin PixelsOf(c)

\* The lone cell at the corner (0, 0): its 8 neighbours get zero entries.
C8_Witness ==
  /\ op = "advanceSim"
  /\ AliveSet(pre.life.first) = {<<0, 0>>}
  /\ DOMAIN life.first = { Shift(<<0, 0>>, d[1], d[2]) : d \in MooreOffsets }
  /\ AliveSet(life.first) = {}

(***************************************************************************)
(* Claims about advanceAge and the tick (AgeSpec, Spec).                   *)
(***************************************************************************)
\* C2: after advanceAge(age, current) the age map's keys are exactly the
\* keys of current, whatever the age map held before, so the draw that
\* follows finds age.at( c ) for every key of the buffer it renders.
C2_AgeKeysAreCurrentKeys ==
  /\ op \in {"advanceAge", "drawScreen"} => DOMAIN age = DOMAIN life.first
  /\ op = "drawScreen" => ~screen.threw

\* A draw after an advanceAge that erased a key, created one and kept one.
C2_Witness ==
  /\ op = "drawScreen"
  /\ screen.pixels # {}
  /\ DOMAIN pre.age \ DOMAIN life.first # {}
  /\ DOMAIN life.first \ DOMAIN pre.age # {}
  /\ DOMAIN life.first \cap DOMAIN pre.age # {}

\* C3, as claimed: after a tick the age map has an entry for a coordinate
\* exactly when the coordinate's cell is alive in the current generation.
C3_AgeKeysAreLiveCells ==
  op = "update" => DOMAIN age = AliveSet(life.first)

\* C4, as claimed: after a tick the age of every live cell is the number of
\* consecutive ticks, ending with this one, after which the cell was alive.
C4_AgeIsLiveStreak ==
  op = "update" =>
    \A c \in AliveSet(life.first) : c \in DOMAIN age /\ age[c] = streak[c]

\* C5: a cell alive after a tick and after the next one has, after the
\* next one, its earlier age plus 1.
C5_AgeGrowsByOne ==
  (op = "update" /\ n >= NUM_GUNS + 2) =>
    \A c \in AliveSet(pre.life.first) \cap AliveSet(life.first) :
      c \in DOMAIN pre.age /\ c \in DOMAIN age /\ age[c] = pre.age[c] + 1

\* After the fourth tick, a cell alive since before the first one.
C5_Witness ==
  /\ op = "update"
  /\ n = NUM_GUNS + 4
  /\ \E c \in AliveSet(pre.life.first) \cap AliveSet(life.first) :
       streak[c] = 4 /\ pre.age[c] = 3 /\ age[c] = 4

(***************************************************************************)
(* Claims about dropPattern (DropSpec).                                    *)
(***************************************************************************)
\* How far from the origin, on each axis, the mirror claim is checked.
Reach == 5

\* The pattern fits the board: no two of its characters share a cell.
Fits(pattern) ==
  /\ Len(pattern) <= Y_GRID
  /\ \A j \in 1 .. Len(pattern) : Len(pattern[j]) <= X_GRID

\* C9: stamped on an empty buffer, rotation 3 and rotation 0 give point
\* mirrors of one another about the origin: the cell at offset (dx, dy) from
\* the origin is alive after the rotation-3 stamp exactly when the cell at
\* offset (-dx, -dy) is alive after the rotation-0 stamp.
C9_Rotation0MirrorsRotation3 ==
  (op = "dropPattern" /\ pre.life.first = EmptyBuffer /\ arg.rotate = 3 /\ Fits(arg.pattern)) =>
    LET o == <<arg.x, arg.y>>
        other == dropPattern(EmptyBuffer, arg.x, arg.y, arg.pattern, 0)
    IN  \A dx \in -Reach .. Reach, dy \in -Reach .. Reach :
          IsAlive(life.first, Shift(o, dx, dy)) <=> IsAlive(other, Shift(o, -dx, -dy))

\* The hook stamped at the far corner with rotation 3: it wraps to the near
\* edges, and the rotation-0 stamp has a live cell where it has none.
C9_Witness ==
  /\ op = "dropPattern"
  /\ pre.life.first = EmptyBuffer
  /\ arg.rotate = 3
  /\ arg.pattern = Hook
  /\ arg.x = X_GRID - 1
  /\ IsAlive(life.first, <<0, Y_GRID - 1>>)
  /\ IsAlive(life.first, <<2, 1>>)
  /\ ~IsAlive(life.first, <<X_GRID - 2, Y_GRID - 1>>)
  /\ IsAlive(dropPattern(EmptyBuffer, arg.x, arg.y, arg.pattern, 0), <<X_GRID - 2, Y_GRID - 1>>)

\* The positions <<row, column>> of a pattern's characters.
Positions(pattern) ==
  UNION { {<<j, i>> : i \in 1 .. Len(pattern[j])} : j \in 1 .. Len(pattern) }

\* Reading order.
ReadBefore(p, q) == p[1] < q[1] \/ (p[1] = q[1] /\ p[2] < q[2])

\* The cell the last stamp wrote the character at position p to.
Destination(a, p) ==
  DropCoord(a.x, a.y, (p[2] - 1) * XStride(a.rotate), (p[1] - 1) * YStride(a.rotate))

\* C10: every cell under the last stamp is alive exactly when the last
\* character written to it, in reading order, is 'X'.
C10_LastWriteWins ==
  op = "dropPattern" =>
    LET P == Positions(arg.pattern)
        dest == [p \in P |-> Destination(arg, p)]
    IN  \A p \in P :
          (\A q \in P : ReadBefore(p, q) => dest[q] # dest[p]) =>
            (IsAlive(life.first, dest[p]) <=> arg.pattern[p[1]][p[2]] = "X")

\* A second stamp whose non-'X' character clears a cell the ground or the
\* first stamp had made alive.
C10_Witness ==
  /\ op = "dropPattern"
  /\ n = 2
  /\ \E p \in Positions(arg.pattern) :
       /\ arg.pattern[p[1]][p[2]] # "X"
       /\ IsAlive(pre.life.first, Destination(arg, p))
       /\ ~IsAlive(life.first, Destination(arg, p))

(***************************************************************************)
(* Claims about the tick's pipeline (Spec).                                *)
(***************************************************************************)
\* C11: a tick is one simulation step, then one age update against the
\* buffer that step produced, then one render of that buffer with the age
\* map just updated; the frame shows only live cells of that generation,
\* each with the palette entry of its updated age.
C11_TickPipeline ==
  op = "update" =>
    LET stepped == advanceSim(pre.life)
        aged    == advanceAge(pre.age, stepped.first)
    IN  /\ life = stepped
        /\ age = aged
        /\ \E before \in Visited(stepped.first, aged) :
             screen = drawScreen(stepped.first, aged, before)
        /\ ~screen.threw
        /\ \A w \in screen.pixels :
             \E c \in AliveSet(life.first) :
               w[1] \in PixelsOf(c) /\ w[2] = ClippedAge(age[c])
        /\ \A c \in AliveSet(life.first) :
             \A p \in PixelsOf(c) : <<p, ClippedAge(age[c])>> \in screen.pixels

\* The third tick: the generation and the ages both moved, and cells are drawn.
C11_Witness ==
  /\ op = "update"
  /\ n = NUM_GUNS + 3
  /\ life.first # pre.life.first
  /\ DOMAIN age # DOMAIN pre.age
  /\ \E c \in DOMAIN age \cap DOMAIN pre.age : age[c] = pre.age[c] + 1
  /\ screen.pixels # {}

\* The coordinate ((x + sx * i) mod W, (y + sy * j) mod H) of the character
\* at position p, with sx = +1 when rotation bit 0 is set and -1 otherwise,
\* sy = +1 when rotation bit 1 is set and -1 otherwise.
ModularDestination(a, p) ==
  Shift(<<a.x, a.y>>,
        (IF a.rotate % 2 = 1 THEN 1 ELSE -1) * (p[2] - 1),
        (IF (a.rotate \div 2) % 2 = 1 THEN 1 ELSE -1) * (p[1] - 1))

\* C12, as claimed: for every pattern, origin and rotation the character at
\* column i of row j is written to ((x + sx * i) mod W, (y + sy * j) mod H):
\* after the stamp that cell is alive exactly when the last character so
\* addressed to it is 'X'.
C12_WritesToModularDestination ==
  op = "dropPattern" =>
    LET P == Positions(arg.pattern)
        dest == [p \in P |-> ModularDestination(arg, p)]
    IN  \A p \in P :
          (\A q \in P : ReadBefore(p, q) => dest[q] # dest[p]) =>
            (IsAlive(life.first, dest[p]) <=> arg.pattern[p[1]][p[2]] = "X")

\* C13: between operations every entry of dbuffer.first and of
\* dbuffer.second holds 0 or 1, after the stamps of the constructor and
\* after every following simulation step: no neighbour count survives the
\* rules, and the N = 2 branch copies a 0 or a 1.
C13_EntriesAreZeroOrOne ==
  /\ \A c \in DOMAIN life.first  : life.first[c]  \in {0, 1}
  /\ \A c \in DOMAIN life.second : life.second[c] \in {0, 1}

\* A second or later step has collapsed a count of four or more to 0 and
\* copied a 1 through the N = 2 branch.
C13_Witness ==
  /\ op = "update"
  /\ n >= NUM_GUNS + 2
  /\ \E c \in DOMAIN life.first :
       LiveNeighbours(pre.life.first, c) >= 4 /\ life.first[c] = 0
  /\ \E c \in DOMAIN life.first :
       LiveNeighbours(pre.life.first, c) = 2 /\ life.first[c] = 1

\* C14: after advanceSim the keys of dbuffer.first are exactly the
\* coordinates that had at least one live toroidal neighbour in the
\* generation the step started from: a coordinate with none has no entry
\* (whatever the buffer held two generations ago), a coordinate with one or
\* more has an entry, alive or not.
C14_KeysAreNeighboursOfLife ==
  op = "advanceSim" =>
    /\ DOMAIN life.first =
         { c \in Checked(pre.life.first, life.first) :
             LiveNeighbours(pre.life.first, c) >= 1 }
    /\ \A c \in DOMAIN pre.life.second :
         LiveNeighbours(pre.life.first, c) = 0 => c \notin DOMAIN life.first

\* A live entry of the buffer of two generations ago is gone, and a
\* coordinate that had no entry has one with value 0.
C14_Witness ==
  /\ op = "advanceSim"
  /\ \E c \in DOMAIN pre.life.second :
       pre.life.second[c] = 1 /\ c \notin DOMAIN life.first
  /\ \E c \in DOMAIN life.first :
       life.first[c] = 0 /\ c \notin DOMAIN pre.life.first
  /\ \E c \in DOMAIN life.first : life.first[c] = 1

InGrid(c) == c[1] \in 0 .. X_GRID - 1 /\ c[2] \in 0 .. Y_GRID - 1

\* C15: after the stamps and after every tick, every key of both generation
\* buffers and of the age map is a coordinate of the board, and every pixel
\* index the draw wrote lies inside the X_SCREEN * Y_SCREEN array.
C15_KeysAndPixelsInRange ==
  /\ \A c \in DOMAIN life.first \cup DOMAIN life.second \cup DOMAIN age : InGrid(c)
  /\ \A w \in screen.pixels : w[1] \in 0 .. X_SCREEN * Y_SCREEN - 1

\* A tick has given a cell of column 0 a neighbour entry in the last column,
\* and the frame paints a live cell of the last column and one of the last
\* row.
C15_Witness ==
  /\ op = "update"
  /\ \E c \in AliveSet(pre.life.first) :
       c[1] = 0 /\ <<X_GRID - 1, c[2]>> \in DOMAIN life.first
  /\ \E c \in AliveSet(life.first) :
       c[1] = X_GRID - 1 /\ \E w \in screen.pixels : w[1] \in PixelsOf(c)
  /\ \E c \in AliveSet(life.first) :
       c[2] = Y_GRID - 1 /\ \E w \in screen.pixels : w[1] \in PixelsOf(c)
  /\ DOMAIN age # {}

MaxOrdered == 3

\* The orders in which a map with keys S can be iterated.
Orders(S) ==
  { order \in [1 .. Cardinality(S) -> S] :
      \A i, j \in 1 .. Cardinality(S) : order[i] = order[j] => i = j }

\* C16: the dbuffer.first that advanceSim produces is the one it produces
\* from the alive coordinates alone (no zero-valued entries, nothing in
\* dbuffer.second), so two double buffers with the same alive coordinates
\* yield the same keys and values; and the neighbour counts are the same in
\* whatever order the entries are visited.
C16_DependsOnAliveSetOnly ==
  op = "advanceSim" =>
    LET bare == [c \in AliveSet(pre.life.first) |-> 1]
        live == {c \in DOMAIN pre.life.first : pre.life.first[c] # 0}
    IN  /\ life.first = advanceSim([first |-> bare, second |-> EmptyBuffer]).first
        /\ Cardinality(DOMAIN pre.life.first) <= MaxOrdered =>
             \A order \in Orders(DOMAIN pre.life.first) :
               CountInOrder(EmptyBuffer, pre.life.first, order, Len(order))
                 = CountNeighbours(EmptyBuffer, pre.life.first)
        /\ Cardinality(live) <= MaxOrdered =>
             \A order \in Orders(live) :
               CountInOrder(EmptyBuffer, pre.life.first, order, Len(order))
                 = CountNeighbours(EmptyBuffer, bare)

\* The step started from a generation with three live cells among
\* zero-valued entries, with live entries in the other buffer, and produced
\* a live cell.
C16_Witness ==
  /\ op = "advanceSim"
  /\ Cardinality(AliveSet(pre.life.first)) = MaxOrdered
  /\ \E c \in DOMAIN pre.life.first : pre.life.first[c] = 0
  /\ \E c \in DOMAIN pre.life.second : pre.life.second[c] = 1
  /\ AliveSet(life.first) # {}

\* C17: advanceSim keeps the generation it read: afterwards dbuffer.second
\* has the alive coordinates dbuffer.first had before, every entry of that
\* buffer is still there with its value, and every entry that was added (by
\* the prior lookup of a coordinate with two live neighbours) holds 0.
C17_SourceGenerationPreserved ==
  op = "advanceSim" =>
    /\ AliveSet(life.second) = AliveSet(pre.life.first)
    /\ \A c \in DOMAIN pre.life.first :
         c \in DOMAIN life.second /\ life.second[c] = pre.life.first[c]
    /\ \A c \in DOMAIN life.second \ DOMAIN pre.life.first :
         life.second[c] = 0 /\ LiveNeighbours(pre.life.first, c) = 2

\* The lookup added an entry to a generation that had live cells and
\* zero-valued entries, and the other buffer held something else.
C17_Witness ==
  /\ op = "advanceSim"
  /\ DOMAIN life.second \ DOMAIN pre.life.first # {}
  /\ AliveSet(pre.life.first) # {}
  /\ \E c \in DOMAIN pre.life.first : pre.life.first[c] = 0
  /\ pre.life.second # pre.life.first
  /\ pre.life.second # EmptyBuffer

\* C18: a stamp changes only the cells of its footprint: every coordinate
\* that is not the destination of a character of the pattern has the same
\* presence and the same value in the buffer as before, and the other
\* generation buffer and the age map are as before.
C18_OnlyFootprintChanges ==
  op = "dropPattern" =>
    LET P == Positions(arg.pattern)
        foot == { Destination(arg, p) : p \in P }
        modular == { ModularDestination(arg, p) : p \in P }
    IN  /\ \A c \in (DOMAIN pre.life.first \cup DOMAIN life.first) \ (foot \cap modular) :
             /\ c \in DOMAIN pre.life.first
             /\ c \in DOMAIN life.first
             /\ life.first[c] = pre.life.first[c]
        /\ life.second = pre.life.second
        /\ age = pre.age

\* A stamp that changed the buffer and left a live cell and a zero-valued
\* entry outside its footprint.
C18_Witness ==
  /\ op = "dropPattern"
  /\ life.first # pre.life.first
  /\ LET foot == { Destination(arg, p) : p \in Positions(arg.pattern) }
     IN  /\ \E c \in DOMAIN pre.life.first \ foot : life.first[c] = 1
         /\ \E c \in DOMAIN pre.life.first \ foot : life.first[c] = 0

====
